---------------------------- MODULE Spec2Model ----------------------------
(***************************************************************************)
(* Model of the RGB consensus core (rgb-core): contract operations         *)
(* (Genesis, Transition, Extension), single-use seals (XSeal, SecretSeal), *)
(* witness positions and their ordering, and the per-assignment state      *)
(* validation of StateSchema.                                              *)
(*                                                                         *)
(* The library is a collection of pure operations over values.  Each group *)
(* of operations has a specification of its own, whose Init draws the      *)
(* values the operations are applied to and whose actions apply them:      *)
(*   SpecWitnessPos  construction paths of WitnessPos and height()         *)
(*   SpecWitnessOrd  the comparison on WitnessOrd / WitnessPos             *)
(*   SpecSeal        the operations and the text form of XSeal             *)
(*   SpecState       StateSchema::validate                                 *)
(*   SpecNode        the Node API of Genesis, Transition and Extension     *)
(*   SpecParents     the parent-output methods of the Node API             *)
(*   SpecWitnessId   the comparison on WitnessId                           *)
(*   SpecOutpoint    the text form of NodeOutpoint                         *)
(***************************************************************************)
EXTENDS Integers, Sequences, FiniteSets, TLC

VARIABLES
    pos,        \* SpecWitnessPos: the WitnessPos the program holds (an Option)
    wret,       \* SpecWitnessPos: the last call and what it returned
    ordA,       \* SpecWitnessOrd: three WitnessOrd values (SpecWitnessId: ids)
    ordB,
    ordC,
    ordering,   \* SpecWitnessOrd: the results of comparing them (an Option)
    xseal,      \* SpecSeal: the revealed seal the operations are applied to
    witness_id, \* SpecSeal: the witness id handed to try_to_output_seal
    sret,       \* SpecSeal: the last call and what it returned
    sprev,      \* SpecSeal: the result of the previous conceal (an Option)
    schema,     \* SpecState: the StateSchema (self of validate)
    vargs,      \* SpecState: node_id, assignment_id and data of the call
    status,     \* SpecState: the validation::Status returned (an Option)
    node,       \* SpecNode: the contract node
    id0,        \* SpecNode: node_id() of the node as it was constructed
    nret        \* SpecNode, SpecOutpoint: the last call and what it returned

wposVars == <<pos, wret>>
wordVars == <<ordA, ordB, ordC, ordering>>
sealVars == <<xseal, witness_id, sret, sprev>>
stateVars == <<schema, vargs, status>>
nodeVars == <<node, id0, nret>>
vars == <<wposVars, wordVars, sealVars, stateVars, nodeVars>>

(***************************************************************************)
(* Option<T>: None is the empty sequence, Some(x) the one-element sequence *)
(***************************************************************************)
None == <<>>

Some(x) == <<x>>

NoCall == [op |-> "none", args |-> <<>>, result |-> <<>>, outcome |-> "none"]

Call(op, args, result) ==
    [op |-> op, args |-> args, result |-> result, outcome |-> "returned"]

Panic(op, args, msg) ==
    [op |-> op, args |-> args, result |-> msg, outcome |-> "panic"]

(***************************************************************************)
(* The variables of the other groups rest at these values in each          *)
(* specification                                                           *)
(***************************************************************************)
IdleExcept(group) ==
    /\ IF group = "WitnessPos" THEN TRUE
       ELSE pos = None /\ wret = NoCall
    /\ IF group = "WitnessOrd" THEN TRUE
       ELSE /\ ordA = [tag |-> "OffChain"]
            /\ ordB = [tag |-> "OffChain"]
            /\ ordC = [tag |-> "OffChain"]
            /\ ordering = None
    /\ IF group = "Seal" THEN TRUE
       ELSE xseal = None /\ witness_id = None /\ sret = NoCall /\ sprev = None
    /\ IF group = "State" THEN TRUE
       ELSE schema = None /\ vargs = None /\ status = None
    /\ IF group = "Node" THEN TRUE
       ELSE node = None /\ id0 = None /\ nret = NoCall

(***************************************************************************)
(* Bounds of the model                                                     *)
(***************************************************************************)
MaxHeight == 2

TimeSpan == 1

(***************************************************************************)
(* Strict encoding of integers: little-endian, fixed width.  Values of the *)
(* model stay below 2^31, so bytes 5.. of an i64 are its sign extension.   *)
(***************************************************************************)
LeBytes(n, width) ==
    [i \in 1..width |->
        IF n >= 0
        THEN (IF i <= 4 THEN (n \div (256 ^ (i - 1))) % 256 ELSE 0)
        ELSE (IF i <= 4
              THEN 255 - ((((-n) - 1) \div (256 ^ (i - 1))) % 256)
              ELSE 255)]

RECURSIVE LeValue(_)
LeValue(bytes) ==
    IF bytes = <<>> THEN 0 ELSE Head(bytes) + 256 * LeValue(Tail(bytes))

DecodeI64(bytes) ==
    IF bytes[8] >= 128
    THEN -(1 + LeValue([i \in 1..4 |-> 255 - bytes[i]]))
    ELSE LeValue(SubSeq(bytes, 1, 4))

(***************************************************************************)
(* WitnessPos                                                              *)
(***************************************************************************)
BitcoinGenesisTime == 1231006505

Heights == 0..MaxHeight

Timestamps ==
    {-1, 0} \cup ((BitcoinGenesisTime - TimeSpan)..(BitcoinGenesisTime + TimeSpan))

WitnessPos(height, timestamp) == [height |-> height, timestamp |-> timestamp]

WitnessPos_new_AcceptsBeforeGenesis(height, timestamp) ==
    IF height = 0 \/ timestamp < BitcoinGenesisTime - 1
    THEN None
    ELSE Some(WitnessPos(height, timestamp))

\* WitnessPos::new
WitnessPos_new(height, timestamp) ==
    IF height = 0 \/ timestamp < BitcoinGenesisTime
    THEN None
    ELSE Some(WitnessPos(height, timestamp))

\* WitnessPos::height: NonZeroU32::new(self.height).expect("invariant")
WitnessPos_height(p) ==
    IF p.height = 0
    THEN Panic("height", <<p>>, "invariant")
    ELSE Call("height", <<p>>, p.height)

\* #[derive(StrictDecode)] on WitnessPos: the fields in order, nothing checked
WitnessPos_strict_decode(bytes) ==
    WitnessPos(LeValue(SubSeq(bytes, 1, 4)), DecodeI64(SubSeq(bytes, 5, 12)))

\* #[derive(StrictDumb)] on WitnessPos: every field at its dumb (zero) value
WitnessPos_strict_dumb == WitnessPos(0, 0)

(***************************************************************************)
(* WitnessOrd                                                              *)
(***************************************************************************)
OffChain == [tag |-> "OffChain"]

OnChain(p) == [tag |-> "OnChain", pos |-> p]

\* WitnessOrd::with_mempool_or_height
WitnessOrd_with_mempool_or_height(height, timestamp) ==
    LET p == WitnessPos_new(height, timestamp)
    IN  IF p = None THEN OffChain ELSE OnChain(p[1])

\* Ordering of two integers (i64::cmp, u32::cmp)
IntCmp(x, y) == IF x < y THEN "Less" ELSE IF x > y THEN "Greater" ELSE "Equal"

\* impl Ord for WitnessPos
WitnessPos_cmp(p, q) == IntCmp(p.timestamp, q.timestamp)

\* #[derive(PartialEq, Eq)] on WitnessPos: field by field
WitnessPos_eq(p, q) == p.height = q.height /\ p.timestamp = q.timestamp

WitnessOrd_discriminant_OffChainFirst(w) == IF w.tag = "OnChain" THEN 1 ELSE 0

\* Declaration order of the variants of WitnessOrd
WitnessOrd_discriminant(w) == IF w.tag = "OnChain" THEN 0 ELSE 1

\* #[derive(Ord)] on WitnessOrd: by variant, then by the payload's Ord
WitnessOrd_cmp(v, w) ==
    IF WitnessOrd_discriminant(v) # WitnessOrd_discriminant(w)
    THEN IntCmp(WitnessOrd_discriminant(v), WitnessOrd_discriminant(w))
    ELSE IF v.tag = "OnChain" THEN WitnessPos_cmp(v.pos, w.pos) ELSE "Equal"

\* #[derive(PartialEq, Eq)] on WitnessOrd: same variant and equal payload
WitnessOrd_eq(v, w) ==
    /\ v.tag = w.tag
    /\ (v.tag = "OnChain" => WitnessPos_eq(v.pos, w.pos))

(***************************************************************************)
(* SpecWitnessPos: every way the program obtains a WitnessPos              *)
(***************************************************************************)
InitWitnessPos ==
    /\ pos = None
    /\ wret = NoCall
    /\ IdleExcept("WitnessPos")

NewWitnessPos ==
    \E h \in Heights, t \in Timestamps :
        LET r == WitnessPos_new(h, t)
        IN  /\ wret.outcome # "panic"
            /\ wret' = Call("new", <<h, t>>, r)
            /\ pos' = IF r = None THEN pos ELSE r
            /\ UNCHANGED <<wordVars, sealVars, stateVars, nodeVars>>

WithMempoolOrHeight ==
    \E h \in Heights, t \in Timestamps :
        LET w == WitnessOrd_with_mempool_or_height(h, t)
        IN  /\ wret.outcome # "panic"
            /\ wret' = Call("with_mempool_or_height", <<h, t>>, w)
            /\ pos' = IF w.tag = "OnChain" THEN Some(w.pos) ELSE pos
            /\ UNCHANGED <<wordVars, sealVars, stateVars, nodeVars>>

StrictDecodeWitnessPos ==
    \E bytes \in {LeBytes(h, 4) \o LeBytes(t, 8) : h \in Heights, t \in Timestamps} :
        LET p == WitnessPos_strict_decode(bytes)
        IN  /\ wret.outcome # "panic"
            /\ wret' = Call("strict_decode", <<bytes>>, p)
            /\ pos' = Some(p)
            /\ UNCHANGED <<wordVars, sealVars, stateVars, nodeVars>>

StrictDumbWitnessPos ==
    /\ wret.outcome # "panic"
    /\ wret' = Call("strict_dumb", <<>>, WitnessPos_strict_dumb)
    /\ pos' = Some(WitnessPos_strict_dumb)
    /\ UNCHANGED <<wordVars, sealVars, stateVars, nodeVars>>

Height ==
    /\ wret.outcome # "panic"
    /\ pos # None
    /\ wret' = WitnessPos_height(pos[1])
    /\ UNCHANGED pos
    /\ UNCHANGED <<wordVars, sealVars, stateVars, nodeVars>>

NextWitnessPos ==
    \/ NewWitnessPos
    \/ WithMempoolOrHeight
    \/ StrictDecodeWitnessPos
    \/ StrictDumbWitnessPos
    \/ Height

SpecWitnessPos == InitWitnessPos /\ [][NextWitnessPos]_vars

(***************************************************************************)
(* SpecWitnessOrd: three WitnessOrd values, built by the checked           *)
(* constructors, are compared with one another                             *)
(***************************************************************************)
BuiltWitnessOrds ==
    {WitnessOrd_with_mempool_or_height(h, t) : h \in Heights, t \in Timestamps}

InitWitnessOrd ==
    /\ IdleExcept("WitnessOrd")
    /\ ordA \in BuiltWitnessOrds
    /\ ordB \in BuiltWitnessOrds
    /\ ordC \in BuiltWitnessOrds
    /\ ordering = None

CompareWitnessOrds ==
    /\ ordering = None
    /\ ordering' = Some([ab |-> WitnessOrd_cmp(ordA, ordB),
                         ba |-> WitnessOrd_cmp(ordB, ordA),
                         bc |-> WitnessOrd_cmp(ordB, ordC),
                         ac |-> WitnessOrd_cmp(ordA, ordC),
                         aa |-> WitnessOrd_cmp(ordA, ordA),
                         eq |-> WitnessOrd_eq(ordA, ordB)])
    /\ UNCHANGED <<ordA, ordB, ordC>>
    /\ UNCHANGED <<wposVars, sealVars, stateVars, nodeVars>>

NextWitnessOrd == CompareWitnessOrds

SpecWitnessOrd == InitWitnessOrd /\ [][NextWitnessOrd]_vars

(***************************************************************************)
(* SHA-256 as an ideal hash: the digest of an input is determined by the   *)
(* input and distinct inputs have distinct digests.  An engine is the      *)
(* sequence of what was fed to it.                                         *)
(***************************************************************************)
Sha256_finish(engine) == [sha256 |-> engine]

\* Sha256::default(): an engine that was fed nothing
Sha256_default == <<>>

\* Sha256::from_tag: the LNPBP tagged hash, SHA256(tag) || SHA256(tag) in front
Sha256_from_tag(tag) == <<Sha256_finish(<<tag>>), Sha256_finish(<<tag>>)>>

(***************************************************************************)
(* Seals.  A revealed seal (GraphSeal, a blind seal of the bp library) is  *)
(* a close method, a txid that may be the witness-transaction placeholder, *)
(* an output number and a blinding factor; XSeal adds the layer 1.         *)
(***************************************************************************)
MaxTxid == 2

MaxVout == 1

MaxBlinding == 1

CloseMethods == {"OpretFirst", "TapretFirst"}

WitnessTx == [tag |-> "WitnessTx"]

TxPtr(txid) == [tag |-> "Txid", txid |-> txid]

TxPtrs == {WitnessTx} \cup {TxPtr(t) : t \in 1..MaxTxid}

BlindSeals ==
    [method : CloseMethods, txid : TxPtrs, vout : 0..MaxVout,
     blinding : 0..MaxBlinding]

XSeal(layer1, seal) == [layer1 |-> layer1, seal |-> seal]

XSeals == {XSeal(l, s) : l \in {"Bitcoin", "Liquid"}, s \in BlindSeals}

WitnessId(layer1, txid) == [layer1 |-> layer1, txid |-> txid]

WitnessIds == {WitnessId(l, t) : l \in {"Bitcoin", "Liquid"}, t \in 1..MaxTxid}

\* ExplicitSeal::new(method, outpoint)
ExplicitSeal_new(method, outpoint) ==
    [method |-> method, txid |-> outpoint.txid, vout |-> outpoint.vout]

\* TxoSeal::outpoint_or: the seal's own txid, or the given one for the placeholder
Seal_outpoint_or(seal, txid) ==
    [txid |-> IF seal.txid.tag = "Txid" THEN seal.txid.txid ELSE txid,
     vout |-> seal.vout]

\* TxoSeal::method
Seal_method(seal) == seal.method

Ok(v) == [ok |-> TRUE, value |-> v]

Err(e) == [ok |-> FALSE, err |-> e]

XSeal_try_to_output_seal_IgnoresLayer(self, wid) ==
    Ok(XSeal(self.layer1,
             ExplicitSeal_new(Seal_method(self.seal),
                              Seal_outpoint_or(self.seal, wid.txid))))

\* XSeal::try_to_output_seal
XSeal_try_to_output_seal(self, wid) ==
    CASE self.layer1 = "Bitcoin" /\ wid.layer1 = "Bitcoin" ->
            Ok(XSeal("Bitcoin",
                     ExplicitSeal_new(Seal_method(self.seal),
                                      Seal_outpoint_or(self.seal, wid.txid))))
      [] self.layer1 = "Liquid" /\ wid.layer1 = "Liquid" ->
            Ok(XSeal("Liquid",
                     ExplicitSeal_new(Seal_method(self.seal),
                                      Seal_outpoint_or(self.seal, wid.txid))))
      [] OTHER -> Err(self)

\* TxoSeal::outpoint: the seal's outpoint when its txid is concrete
Seal_outpoint(seal) ==
    IF seal.txid.tag = "Txid"
    THEN Some([txid |-> seal.txid.txid, vout |-> seal.vout])
    ELSE None

XSeal_to_output_seal_LosesLayer(self) ==
    LET outpoint == Seal_outpoint(self.seal)
    IN  IF outpoint = None THEN None
        ELSE Some(XSeal("Bitcoin",
                        ExplicitSeal_new(Seal_method(self.seal), outpoint[1])))

\* XSeal::to_output_seal: `?` returns None when the seal has no outpoint
XSeal_to_output_seal(self) ==
    CASE self.layer1 = "Bitcoin" ->
            LET outpoint == Seal_outpoint(self.seal)
            IN  IF outpoint = None THEN None
                ELSE Some(XSeal("Bitcoin",
                          ExplicitSeal_new(Seal_method(self.seal), outpoint[1])))
      [] self.layer1 = "Liquid" ->
            LET outpoint == Seal_outpoint(self.seal)
            IN  IF outpoint = None THEN None
                ELSE Some(XSeal("Liquid",
                          ExplicitSeal_new(Seal_method(self.seal), outpoint[1])))

\* Strict encoding of the blind seal: method, txid pointer, vout, blinding
Seal_strict_encode(seal) ==
    <<IF seal.method = "OpretFirst" THEN 0 ELSE 1>>
    \o (IF seal.txid.tag = "WitnessTx"
        THEN <<0>>
        ELSE <<1>> \o LeBytes(seal.txid.txid, 32))
    \o LeBytes(seal.vout, 4)
    \o LeBytes(seal.blinding, 8)

\* #[derive(StrictEncode)] on XSeal, tags = custom: 0x00 Bitcoin, 0x01 Liquid
XSeal_strict_encode(x) ==
    <<IF x.layer1 = "Bitcoin" THEN 0 ELSE 1>> \o Seal_strict_encode(x.seal)

\* StrictWriter over a hash engine: the bytes written are fed to the engine
StrictWriter_write(engine, bytes) == engine \o bytes

SecretSeal_commit_Tagged(reveal) ==
    Sha256_finish(
        StrictWriter_write(Sha256_from_tag("urn:lnpbp:rgb:genesis:v01#202302"), XSeal_strict_encode(reveal)))

\* impl CommitVerify<XSeal<U>, UntaggedProtocol> for SecretSeal: commit
SecretSeal_commit(reveal) ==
    Sha256_finish(StrictWriter_write(Sha256_default, XSeal_strict_encode(reveal)))

\* impl Conceal for XSeal: conceal
XSeal_conceal(x) == SecretSeal_commit(x)

(***************************************************************************)
(* Text of seals.  A text is the sequence of its pieces: the separators    *)
(* ":" and "#" are pieces of their own, every other piece is a maximal run *)
(* of characters holding no separator.                                     *)
(***************************************************************************)
\* Display for CloseMethod
CloseMethod_to_string(method) ==
    IF method = "OpretFirst" THEN "opret1st" ELSE "tapret1st"

\* Display for TxPtr: "~" for the witness transaction, else the txid
TxPtr_to_string(txid) ==
    IF txid.tag = "WitnessTx" THEN "~" ELSE ToString(txid.txid)

\* Display for the blind seal: "{method}:{txid}:{vout}#{blinding}"
Seal_to_string(seal) ==
    <<CloseMethod_to_string(seal.method), ":", TxPtr_to_string(seal.txid), ":",
      ToString(seal.vout), "#", ToString(seal.blinding)>>

\* FromStr for the blind seal: the four fields between their separators
Seal_from_str(text) ==
    IF /\ Len(text) = 7
       /\ text[2] = ":" /\ text[4] = ":" /\ text[6] = "#"
       /\ \E m \in CloseMethods : CloseMethod_to_string(m) = text[1]
       /\ \E t \in TxPtrs : TxPtr_to_string(t) = text[3]
       /\ \E v \in 0..MaxVout : ToString(v) = text[5]
       /\ \E b \in 0..MaxBlinding : ToString(b) = text[7]
    THEN Ok([method |-> CHOOSE m \in CloseMethods :
                            CloseMethod_to_string(m) = text[1],
             txid |-> CHOOSE t \in TxPtrs : TxPtr_to_string(t) = text[3],
             vout |-> CHOOSE v \in 0..MaxVout : ToString(v) = text[5],
             blinding |-> CHOOSE b \in 0..MaxBlinding : ToString(b) = text[7]])
    ELSE Err("ParseError")

\* Display for XSeal: "bitcoin:{seal}" or "liquid:{seal}"
XSeal_to_string(x) ==
    IF x.layer1 = "Bitcoin"
    THEN <<"bitcoin", ":">> \o Seal_to_string(x.seal)
    ELSE <<"liquid", ":">> \o Seal_to_string(x.seal)

\* str::split_once(':'): the text before and after the first ':'
split_once(text) ==
    IF \E i \in DOMAIN text : text[i] = ":"
    THEN LET i == CHOOSE k \in DOMAIN text :
                      /\ text[k] = ":"
                      /\ \A j \in 1..(k - 1) : text[j] # ":"
         IN  Some(<<SubSeq(text, 1, i - 1), SubSeq(text, i + 1, Len(text))>>)
    ELSE None

\* XchainParseError::UnknownPrefix
UnknownPrefix(prefix) == [kind |-> "UnknownPrefix", prefix |-> prefix]

\* .map(XSeal::Bitcoin).map_err(XchainParseError::from) and its Liquid twin
map_seal(layer1, parsed) ==
    IF parsed.ok THEN Ok(XSeal(layer1, parsed.value))
    ELSE Err([kind |-> "Seal", inner |-> parsed.err])

XSeal_from_str_WholeTextAsPrefix(s) ==
    LET split == split_once(s)
    IN  IF split # None
        THEN CASE split[1][1] = <<"bitcoin">> ->
                    map_seal("Bitcoin", Seal_from_str(split[1][2]))
               [] split[1][1] = <<"liquid">> ->
                    map_seal("Liquid", Seal_from_str(split[1][2]))
               [] OTHER -> Err(UnknownPrefix(s))
        ELSE map_seal("Bitcoin", Seal_from_str(s))

\* FromStr for XSeal: from_str
XSeal_from_str(s) ==
    LET split == split_once(s)
    IN  IF split # None
        THEN CASE split[1][1] = <<"bitcoin">> ->
                    map_seal("Bitcoin", Seal_from_str(split[1][2]))
               [] split[1][1] = <<"liquid">> ->
                    map_seal("Liquid", Seal_from_str(split[1][2]))
               [] OTHER -> Err(UnknownPrefix(split[1][1]))
        ELSE map_seal("Bitcoin", Seal_from_str(s))

(***************************************************************************)
(* SpecSeal: the operations of XSeal applied to a revealed seal            *)
(***************************************************************************)
InitSeal ==
    /\ IdleExcept("Seal")
    /\ xseal \in XSeals
    /\ witness_id \in WitnessIds
    /\ sret = NoCall
    /\ sprev = None

TryToOutputSeal ==
    /\ sret' = Call("try_to_output_seal", <<xseal, witness_id>>,
                    XSeal_try_to_output_seal(xseal, witness_id))
    /\ UNCHANGED <<xseal, witness_id, sprev>>
    /\ UNCHANGED <<wposVars, wordVars, stateVars, nodeVars>>

ConcealSeal ==
    /\ sret' = Call("conceal", <<xseal>>, XSeal_conceal(xseal))
    /\ sprev' = IF sret.op = "conceal" THEN Some(sret.result) ELSE sprev
    /\ UNCHANGED <<xseal, witness_id>>
    /\ UNCHANGED <<wposVars, wordVars, stateVars, nodeVars>>

ToOutputSeal ==
    /\ sret' = Call("to_output_seal", <<xseal>>, XSeal_to_output_seal(xseal))
    /\ UNCHANGED <<xseal, witness_id, sprev>>
    /\ UNCHANGED <<wposVars, wordVars, stateVars, nodeVars>>

\* A text is parsed: the text of the seal, bare or behind a layer-1 prefix,
\* and texts with another prefix, no prefix, or no seal behind the prefix
FromStr ==
    \E text \in {Seal_to_string(xseal.seal),
                  XSeal_to_string(XSeal("Bitcoin", xseal.seal)),
                  XSeal_to_string(XSeal("Liquid", xseal.seal)),
                  <<"deadbeef">>, <<":", "deadbeef">>}
                 \cup {<<p, ":">> \o rest :
                          p \in {"bitcoin", "liquid", "xyz", "Bitcoin"},
                          rest \in {Seal_to_string(xseal.seal), <<"deadbeef">>}} :
        /\ sret' = Call("from_str", <<text>>, XSeal_from_str(text))
        /\ UNCHANGED <<xseal, witness_id, sprev>>
        /\ UNCHANGED <<wposVars, wordVars, stateVars, nodeVars>>

NextSeal ==
    \/ FromStr
    \/ TryToOutputSeal
    \/ ToOutputSeal
    \/ ConcealSeal

SpecSeal == InitSeal /\ [][NextSeal]_vars

(***************************************************************************)
(* Owned state.  Each of the four state strategies has a revealed and a    *)
(* confidential state type; an assignment binds a seal to a state, either  *)
(* of them revealed or concealed.                                          *)
(***************************************************************************)
MaxNodeId == 2

MaxAssignmentId == 2

Strategies == {"Declarative", "Arithmetic", "Structured", "Attachment"}

ConfidentialForms == {"Confidential", "ConfidentialState"}

RevealedForms == {"ConfidentialSeal", "Revealed"}

\* <S as State>::Confidential: the type of a concealed state of strategy S
State_Confidential(strategy) ==
    CASE strategy = "Declarative" -> "()"
      [] strategy = "Arithmetic" -> "value::Confidential"
      [] strategy = "Structured" -> "data::Confidential"
      [] strategy = "Attachment" -> "attachment::Confidential"

\* <S as State>::Revealed: the type of a revealed state of strategy S
State_Revealed(strategy) ==
    CASE strategy = "Declarative" -> "()"
      [] strategy = "Arithmetic" -> "value::Revealed"
      [] strategy = "Structured" -> "data::Revealed"
      [] strategy = "Attachment" -> "attachment::Revealed"

\* The concealed states of a strategy: a typed value; arithmetic ones carry
\* a commitment and a range proof
ConfidentialStates(strategy) ==
    IF strategy = "Arithmetic"
    THEN {[type |-> State_Confidential(strategy), range_proof |-> p] :
              p \in {"valid", "invalid"}}
    ELSE {[type |-> State_Confidential(strategy), range_proof |-> "none"]}

\* The revealed states of a strategy
RevealedStates(strategy) ==
    {[type |-> State_Revealed(strategy), range_proof |-> "none"]}

\* Assignment<STATE>: the four forms over the states of strategy STATE
Assignments(strategy) ==
    {[form |-> f, strategy |-> strategy, state |-> s] :
        f \in ConfidentialForms, s \in ConfidentialStates(strategy)}
    \cup
    {[form |-> f, strategy |-> strategy, state |-> s] :
        f \in RevealedForms, s \in RevealedStates(strategy)}

\* value::Confidential::verify_range_proof
verify_range_proof(value) ==
    IF value.range_proof = "valid" THEN Ok(TRUE) ELSE Err("InvalidRangeProof")

\* state.as_any().downcast_ref::<T>(): Some exactly for a value of type T
downcast_ref(a, type) == IF a.type = type THEN Some(a) ELSE None

(***************************************************************************)
(* validation::Status and its entries                                      *)
(***************************************************************************)
Status_new == [failures |-> <<>>, warnings |-> <<>>, infos |-> <<>>]

add_failure(st, failure) == [st EXCEPT !.failures = Append(@, failure)]

add_info(st, info) == [st EXCEPT !.infos = Append(@, info)]

is_valid(st) == st.failures = <<>>

SchemaMismatchedStateType(assignment_id) ==
    [kind |-> "SchemaMismatchedStateType", assignment_id |-> assignment_id]

InvalidBulletproofs(node_id, assignment_id, err) ==
    [kind |-> "InvalidBulletproofs", node_id |-> node_id,
     assignment_id |-> assignment_id, err |-> err]

UncheckableConfidentialStateData(node_id, assignment_id) ==
    [kind |-> "UncheckableConfidentialStateData", node_id |-> node_id,
     assignment_id |-> assignment_id]

validate_confidential_IgnoresRangeProof(self, node_id, assignment_id, a, st) ==
    CASE self = "Declarative" ->
            IF downcast_ref(a, State_Confidential("Declarative")) = None
            THEN add_failure(st, SchemaMismatchedStateType(assignment_id))
            ELSE st
      [] self = "Arithmetic" ->
            IF downcast_ref(a, State_Confidential("Arithmetic")) # None
            THEN st
            ELSE add_failure(st, SchemaMismatchedStateType(assignment_id))
      [] self = "Structured" ->
            IF downcast_ref(a, State_Confidential("Structured")) = None
            THEN add_failure(st, SchemaMismatchedStateType(assignment_id))
            ELSE add_info(st, UncheckableConfidentialStateData(node_id,
                                                               assignment_id))
      [] self = "Attachment" ->
            IF downcast_ref(a, State_Confidential("Attachment")) = None
            THEN add_failure(st, SchemaMismatchedStateType(assignment_id))
            ELSE st

validate_confidential_NoInfo(self, node_id, assignment_id, a, st) ==
    CASE self = "Declarative" ->
            IF downcast_ref(a, State_Confidential("Declarative")) = None
            THEN add_failure(st, SchemaMismatchedStateType(assignment_id))
            ELSE st
      [] self = "Arithmetic" ->
            LET value == downcast_ref(a, State_Confidential("Arithmetic"))
            IN  IF value # None
                THEN LET r == verify_range_proof(value[1])
                     IN  IF ~r.ok
                         THEN add_failure(st, InvalidBulletproofs(
                                  node_id, assignment_id, r.err))
                         ELSE st
                ELSE add_failure(st, SchemaMismatchedStateType(assignment_id))
      [] self = "Structured" ->
            IF downcast_ref(a, State_Confidential("Structured")) = None
            THEN add_failure(st, SchemaMismatchedStateType(assignment_id))
            ELSE st
      [] self = "Attachment" ->
            IF downcast_ref(a, State_Confidential("Attachment")) = None
            THEN add_failure(st, SchemaMismatchedStateType(assignment_id))
            ELSE st

\* StateSchema::validate, the arm of Assignment::Confidential and
\* Assignment::ConfidentialState
validate_confidential(self, node_id, assignment_id, a, st) ==
    CASE self = "Declarative" ->
            IF downcast_ref(a, State_Confidential("Declarative")) = None
            THEN add_failure(st, SchemaMismatchedStateType(assignment_id))
            ELSE st
      [] self = "Arithmetic" ->
            LET value == downcast_ref(a, State_Confidential("Arithmetic"))
            IN  IF value # None
                THEN LET r == verify_range_proof(value[1])
                     IN  IF ~r.ok
                         THEN add_failure(st, InvalidBulletproofs(
                                  node_id, assignment_id, r.err))
                         ELSE st
                ELSE add_failure(st, SchemaMismatchedStateType(assignment_id))
      [] self = "Structured" ->
            IF downcast_ref(a, State_Confidential("Structured")) = None
            THEN add_failure(st, SchemaMismatchedStateType(assignment_id))
            ELSE add_info(st, UncheckableConfidentialStateData(node_id,
                                                               assignment_id))
      [] self = "Attachment" ->
            IF downcast_ref(a, State_Confidential("Attachment")) = None
            THEN add_failure(st, SchemaMismatchedStateType(assignment_id))
            ELSE st

validate_revealed_NoArithmeticCheck(self, node_id, assignment_id, a, st) ==
    CASE self = "Declarative" ->
            IF downcast_ref(a, State_Revealed("Declarative")) = None
            THEN add_failure(st, SchemaMismatchedStateType(assignment_id))
            ELSE st
      [] self = "Arithmetic" -> st
      [] self = "Structured" ->
            IF downcast_ref(a, State_Revealed("Structured")) = None
            THEN add_failure(st, SchemaMismatchedStateType(assignment_id))
            ELSE st
      [] self = "Attachment" ->
            IF downcast_ref(a, State_Revealed("Attachment")) = None
            THEN add_failure(st, SchemaMismatchedStateType(assignment_id))
            ELSE st

\* StateSchema::validate, the arm of Assignment::Revealed and
\* Assignment::ConfidentialSeal
validate_revealed(self, node_id, assignment_id, a, st) ==
    CASE self = "Declarative" ->
            IF downcast_ref(a, State_Revealed("Declarative")) = None
            THEN add_failure(st, SchemaMismatchedStateType(assignment_id))
            ELSE st
      [] self = "Arithmetic" ->
            IF downcast_ref(a, State_Revealed("Arithmetic")) = None
            THEN add_failure(st, SchemaMismatchedStateType(assignment_id))
            ELSE st
      [] self = "Structured" ->
            IF downcast_ref(a, State_Revealed("Structured")) = None
            THEN add_failure(st, SchemaMismatchedStateType(assignment_id))
            ELSE st
      [] self = "Attachment" ->
            IF downcast_ref(a, State_Revealed("Attachment")) = None
            THEN add_failure(st, SchemaMismatchedStateType(assignment_id))
            ELSE st

\* StateSchema::validate
StateSchema_validate(self, node_id, assignment_id, data) ==
    IF data.form \in ConfidentialForms
    THEN validate_confidential(self, node_id, assignment_id, data.state,
                               Status_new)
    ELSE validate_revealed(self, node_id, assignment_id, data.state,
                           Status_new)

(***************************************************************************)
(* SpecState: StateSchema::validate applied to an assignment               *)
(***************************************************************************)
InitState ==
    /\ IdleExcept("State")
    /\ schema \in Strategies
    /\ vargs \in {[node_id |-> n, assignment_id |-> t, data |-> d] :
                    n \in 1..MaxNodeId, t \in 1..MaxAssignmentId,
                    d \in UNION {Assignments(s) : s \in Strategies}}
    /\ status = None

Validate ==
    /\ status = None
    /\ status' = Some(StateSchema_validate(schema, vargs.node_id,
                                           vargs.assignment_id, vargs.data))
    /\ UNCHANGED <<schema, vargs>>
    /\ UNCHANGED <<wposVars, wordVars, sealVars, nodeVars>>

NextState == Validate

SpecState == InitState /\ [][NextState]_vars

(***************************************************************************)
(* Assignments inside a contract node.  An assignment has one of the four  *)
(* forms; its seal is a revealed XSeal or the SecretSeal it conceals to,   *)
(* its state a revealed state or the confidential state it conceals to.    *)
(***************************************************************************)
MaxOwnedRightType == 2

MaxAssignments == 2

MaxContractId == 2

OwnedRightTypes == 1..MaxOwnedRightType

\* The strategy a schema gives each owned right type
OwnedRightStrategy(ty) ==
    CASE ty % 3 = 1 -> "Declarative"
      [] ty % 3 = 2 -> "Structured"
      [] OTHER -> "Attachment"

\* The revealed seals the assignments of the node are made with
NodeSeals ==
    {XSeal("Bitcoin", [method |-> "TapretFirst", txid |-> WitnessTx,
                       vout |-> 0, blinding |-> 0]),
     XSeal("Liquid", [method |-> "OpretFirst", txid |-> TxPtr(1),
                      vout |-> 1, blinding |-> 1])}

\* seal::Confidential values a caller may list
SecretSeals == {XSeal_conceal(s) : s \in NodeSeals}

Assignment(form, seal, state) == [form |-> form, seal |-> seal, state |-> state]

\* <STATE::Revealed as Conceal>::conceal
State_conceal(strategy, state) ==
    [type |-> State_Confidential(strategy),
     range_proof |-> IF strategy = "Arithmetic" THEN "valid" ELSE "none"]

\* ConcealState for Assignment: conceal_state_except
Assignment_conceal_state_except(strategy, a, seals) ==
    CASE a.form \in {"Confidential", "ConfidentialState"} ->
            [value |-> a, count |-> 0]
      [] a.form = "ConfidentialSeal" ->
            IF a.seal \in seals
            THEN [value |-> a, count |-> 0]
            ELSE [value |-> Assignment("Confidential", a.seal,
                                       State_conceal(strategy, a.state)),
                  count |-> 1]
      [] a.form = "Revealed" ->
            IF XSeal_conceal(a.seal) \in seals
            THEN [value |-> a, count |-> 0]
            ELSE [value |-> Assignment("ConfidentialState", a.seal,
                                       State_conceal(strategy, a.state)),
                  count |-> 1]

\* ConcealSeals for Assignment: conceal_seals
Assignment_conceal_seals(a, seals) ==
    CASE a.form \in {"Confidential", "ConfidentialSeal"} ->
            [value |-> a, count |-> 0]
      [] a.form = "ConfidentialState" ->
            IF XSeal_conceal(a.seal) \in seals
            THEN [value |-> Assignment("Confidential", XSeal_conceal(a.seal),
                                       a.state),
                  count |-> 1]
            ELSE [value |-> a, count |-> 0]
      [] a.form = "Revealed" ->
            IF XSeal_conceal(a.seal) \in seals
            THEN [value |-> Assignment("ConfidentialSeal",
                                       XSeal_conceal(a.seal), a.state),
                  count |-> 1]
            ELSE [value |-> a, count |-> 0]

RECURSIVE SumSeq(_)
SumSeq(s) == IF s = <<>> THEN 0 ELSE Head(s) + SumSeq(Tail(s))

RECURSIVE Concat(_)
Concat(ss) == IF ss = <<>> THEN <<>> ELSE Head(ss) \o Concat(Tail(ss))

TypedAssignments(strategy, items) == [strategy |-> strategy, items |-> items]

\* ConcealState for TypedAssignments: every assignment in turn, counts added
TypedAssignments_conceal_state_except(ta, seals) ==
    LET r == [i \in DOMAIN ta.items |->
                 Assignment_conceal_state_except(ta.strategy, ta.items[i], seals)]
    IN  [value |-> TypedAssignments(ta.strategy,
                                    [i \in DOMAIN ta.items |-> r[i].value]),
         count |-> SumSeq([i \in DOMAIN ta.items |-> r[i].count])]

\* ConcealSeals for TypedAssignments: every assignment in turn, counts added
TypedAssignments_conceal_seals(ta, seals) ==
    LET r == [i \in DOMAIN ta.items |->
                 Assignment_conceal_seals(ta.items[i], seals)]
    IN  [value |-> TypedAssignments(ta.strategy,
                                    [i \in DOMAIN ta.items |-> r[i].value]),
         count |-> SumSeq([i \in DOMAIN ta.items |-> r[i].count])]

(***************************************************************************)
(* Strict encoding of the contents of a node.  A 32-byte hash is one token *)
(* of the encoding (the digest itself); every other token is a byte.       *)
(***************************************************************************)
\* State: the unit state encodes to nothing, any other state to its bytes
State_strict_encode(state) ==
    IF state.type = "()" THEN <<>> ELSE <<state.type>>

\* Assignment: the one-byte tag of the form, then the seal, then the state
Assignment_strict_encode(a) ==
    CASE a.form = "Confidential" ->
            <<0>> \o <<a.seal>> \o State_strict_encode(a.state)
      [] a.form = "Revealed" ->
            <<1>> \o XSeal_strict_encode(a.seal) \o State_strict_encode(a.state)
      [] a.form = "ConfidentialSeal" ->
            <<2>> \o <<a.seal>> \o State_strict_encode(a.state)
      [] a.form = "ConfidentialState" ->
            <<3>> \o XSeal_strict_encode(a.seal) \o State_strict_encode(a.state)

\* TypedAssignments: the one-byte tag of the strategy, then the length-
\* prefixed sequence of assignments
TypedAssignments_strict_encode(ta) ==
    <<CASE ta.strategy = "Declarative" -> 0
        [] ta.strategy = "Arithmetic" -> 1
        [] ta.strategy = "Structured" -> 2
        [] ta.strategy = "Attachment" -> 3>>
    \o LeBytes(Len(ta.items), 2)
    \o Concat([i \in DOMAIN ta.items |-> Assignment_strict_encode(ta.items[i])])

\* OwnedRights, a TinyOrdMap: one byte of length, then the entries by
\* ascending owned right type
OwnedRights_strict_encode(rights) ==
    <<Cardinality(DOMAIN rights)>>
    \o Concat([ty \in OwnedRightTypes |->
                  IF ty \in DOMAIN rights
                  THEN LeBytes(ty, 2) \o TypedAssignments_strict_encode(rights[ty])
                  ELSE <<>>])

\* A sorted set of u16 (PublicRights), given as its ascending sequence
U16Seq_strict_encode(s) ==
    <<Len(s)>> \o Concat([i \in DOMAIN s |-> LeBytes(s[i], 2)])

\* ParentOwnedRights: NodeId -> (owned right type -> output numbers), the
\* maps given as ascending sequences of (key, value) pairs
ParentOwnedRights_strict_encode(parents) ==
    <<Len(parents)>>
    \o Concat([i \in DOMAIN parents |->
          <<parents[i][1].bytes>>
          \o <<Len(parents[i][2])>>
          \o Concat([j \in DOMAIN parents[i][2] |->
                LeBytes(parents[i][2][j][1], 2)
                \o U16Seq_strict_encode(parents[i][2][j][2])])])

\* ParentPublicRights: NodeId -> set of public right types
ParentPublicRights_strict_encode(parents) ==
    <<Len(parents)>>
    \o Concat([i \in DOMAIN parents |->
          <<parents[i][1].bytes>> \o U16Seq_strict_encode(parents[i][2])])

(***************************************************************************)
(* Identifiers                                                             *)
(***************************************************************************)
NodeId(bytes) == [type |-> "NodeId", bytes |-> bytes]

ContractId(bytes) == [type |-> "ContractId", bytes |-> bytes]

\* The hash of some other object (a schema, a parent node, a contract)
OtherHash(n) == Sha256_finish(<<n>>)

(***************************************************************************)
(* Genesis, Extension and Transition                                       *)
(***************************************************************************)
\* Genesis::with
Genesis_with(schema_id, chain, metadata, owned_rights, public_rights) ==
    [kind |-> "Genesis", schema_id |-> schema_id, chain |-> chain,
     metadata |-> metadata, owned_rights |-> owned_rights,
     public_rights |-> public_rights]

\* Extension::with
Extension_with(extension_type, contract_id, metadata, owned_rights, parent_public_rights, public_rights) ==
    [kind |-> "Extension", extension_type |-> extension_type,
     contract_id |-> contract_id, metadata |-> metadata,
     parent_public_rights |-> parent_public_rights,
     owned_rights |-> owned_rights, public_rights |-> public_rights]

\* Transition::with
Transition_with(transition_type, metadata, owned_rights, public_rights, parent_owned_rights) ==
    [kind |-> "Transition", transition_type |-> transition_type,
     metadata |-> metadata, parent_owned_rights |-> parent_owned_rights,
     owned_rights |-> owned_rights, public_rights |-> public_rights]

\* #[derive(StrictEncode)] on Genesis: the fields in declaration order
Genesis_strict_encode(n) ==
    <<n.schema_id>> \o <<n.chain>> \o <<Len(n.metadata)>>
    \o OwnedRights_strict_encode(n.owned_rights)
    \o U16Seq_strict_encode(n.public_rights)

\* #[derive(StrictEncode)] on Extension: the fields in declaration order
Extension_strict_encode(n) ==
    LeBytes(n.extension_type, 2) \o <<n.contract_id.bytes>>
    \o <<Len(n.metadata)>>
    \o OwnedRights_strict_encode(n.owned_rights)
    \o ParentPublicRights_strict_encode(n.parent_public_rights)
    \o U16Seq_strict_encode(n.public_rights)

\* #[derive(StrictEncode)] on Transition: the fields in declaration order
Transition_strict_encode(n) ==
    LeBytes(n.transition_type, 2) \o <<Len(n.metadata)>>
    \o ParentOwnedRights_strict_encode(n.parent_owned_rights)
    \o OwnedRights_strict_encode(n.owned_rights)
    \o U16Seq_strict_encode(n.public_rights)

\* CommitmentId::commitment_id with CommitStrategy = strategies::Strict: the
\* tagged hash of the strict encoding of the value as it stands
Genesis_commitment_id(n) ==
    ContractId(Sha256_finish(
        StrictWriter_write(Sha256_from_tag("urn:lnpbp:rgb:genesis:v01#202302"), Genesis_strict_encode(n))))

Extension_commitment_id(n) ==
    NodeId(Sha256_finish(
        StrictWriter_write(Sha256_from_tag("urn:lnpbp:rgb:extension:v01#2023"),
                           Extension_strict_encode(n))))

Transition_commitment_id(n) ==
    NodeId(Sha256_finish(
        StrictWriter_write(Sha256_from_tag("urn:lnpbp:rgb:transition:v01#32A"),
                           Transition_strict_encode(n))))

\* Node::node_id for Genesis, Extension and Transition
Node_node_id(n) ==
    CASE n.kind = "Genesis" -> NodeId(Genesis_commitment_id(n).bytes)
      [] n.kind = "Extension" -> Extension_commitment_id(n)
      [] n.kind = "Transition" -> Transition_commitment_id(n)

Node_contract_id_FromNodeId(n) ==
    Some(ContractId(Node_node_id(n).bytes))

\* Node::contract_id for Genesis, Extension and Transition
Node_contract_id(n) ==
    CASE n.kind = "Genesis" -> Some(ContractId(Node_node_id(n).bytes))
      [] n.kind = "Extension" -> Some(n.contract_id)
      [] n.kind = "Transition" -> None

\* Genesis::contract_id (inherent)
Genesis_contract_id(n) == ContractId(Node_node_id(n).bytes)

\* Node::parent_owned_rights for Genesis, Extension and Transition
Node_parent_owned_rights(n) ==
    CASE n.kind = "Genesis" ->
            Panic("parent_owned_rights", <<>>,
                  "genesis can't close previous single-use-seals")
      [] n.kind = "Extension" ->
            Panic("parent_owned_rights", <<>>,
                  "extension can't close previous single-use-seals")
      [] n.kind = "Transition" ->
            Call("parent_owned_rights", <<>>, n.parent_owned_rights)

\* Node::parent_public_rights for Genesis, Extension and Transition
Node_parent_public_rights(n) ==
    CASE n.kind = "Genesis" ->
            Panic("parent_public_rights", <<>>,
                  "genesis can't extend previous state")
      [] n.kind = "Extension" ->
            Call("parent_public_rights", <<>>, n.parent_public_rights)
      [] n.kind = "Transition" ->
            Panic("parent_public_rights", <<>>,
                  "state transitions can't extend previous state")

\* ConcealState for Genesis, Extension and Transition: conceal_state_except
Node_conceal_state_except(n, seals) ==
    LET r == [ty \in DOMAIN n.owned_rights |->
                 TypedAssignments_conceal_state_except(n.owned_rights[ty], seals)]
    IN  [node |-> [n EXCEPT !.owned_rights =
                       [ty \in DOMAIN n.owned_rights |-> r[ty].value]],
         count |-> SumSeq([ty \in OwnedRightTypes |->
                      IF ty \in DOMAIN r THEN r[ty].count ELSE 0])]

\* ConcealSeals for Genesis, Transition and Extension: conceal_seals
Node_conceal_seals(n, seals) ==
    LET r == [ty \in DOMAIN n.owned_rights |->
                 TypedAssignments_conceal_seals(n.owned_rights[ty], seals)]
    IN  [node |-> [n EXCEPT !.owned_rights =
                       [ty \in DOMAIN n.owned_rights |-> r[ty].value]],
         count |-> SumSeq([ty \in OwnedRightTypes |->
                      IF ty \in DOMAIN r THEN r[ty].count ELSE 0])]

\* A finite set of integers as its ascending sequence (BTreeMap iteration)
RECURSIVE Ascending(_)
Ascending(S) ==
    IF S = {} THEN <<>>
    ELSE LET least == CHOOSE x \in S : \A y \in S : x <= y
         IN  <<least>> \o Ascending(S \ {least})

\* slice::contains
contains(slice, x) == \E i \in DOMAIN slice : slice[i] = x

\* Assignment::revealed_seal: the seal, unless the assignment holds only its
\* secret form
Assignment_revealed_seal(a) ==
    IF a.form \in {"Revealed", "ConfidentialState"} THEN Some(a.seal) ELSE None

\* TypedAssignments::revealed_seals: the seals of the assignments, or an error
\* if one of them is concealed
TypedAssignments_revealed_seals(ta) ==
    IF \E i \in DOMAIN ta.items : Assignment_revealed_seal(ta.items[i]) = None
    THEN Err("ConfidentialDataError")
    ELSE Ok([i \in DOMAIN ta.items |-> Assignment_revealed_seal(ta.items[i])[1]])

\* TypedAssignments::filter_revealed_seals: the seals that are revealed
TypedAssignments_filter_revealed_seals(ta) ==
    Concat([i \in DOMAIN ta.items |-> Assignment_revealed_seal(ta.items[i])])

\* self.owned_rights().iter(): the entries by ascending owned right type
OwnedRights_iter(rights) ==
    LET tys == Ascending(DOMAIN rights)
    IN  [i \in DOMAIN tys |-> <<tys[i], rights[tys[i]]>>]

Node_revealed_seals_SkipsConcealed(n) ==
    LET it == OwnedRights_iter(n.owned_rights)
    IN  Ok(Concat([i \in DOMAIN it |->
                      TypedAssignments_filter_revealed_seals(it[i][2])]))

\* Node::revealed_seals
Node_revealed_seals(n) ==
    LET it == OwnedRights_iter(n.owned_rights)
        unfiltered == [i \in DOMAIN it |->
                          TypedAssignments_revealed_seals(it[i][2])]
    IN  IF contains(unfiltered, Err("ConfidentialDataError"))
        THEN Err("ConfidentialDataError")
        ELSE Ok(Concat([i \in DOMAIN unfiltered |-> unfiltered[i].value]))

\* Node::filter_revealed_seals
Node_filter_revealed_seals(n) ==
    LET it == OwnedRights_iter(n.owned_rights)
    IN  Concat([i \in DOMAIN it |->
                   TypedAssignments_filter_revealed_seals(it[i][2])])

(***************************************************************************)
(* SpecNode: a node is constructed with revealed assignments; its          *)
(* assignments are concealed and its accessors called, in any order        *)
(***************************************************************************)
\* Non-empty sequences of at most n elements of S
SeqsUpTo(S, n) == UNION {[1..k -> S] : k \in 1..n}

\* The revealed assignment of an owned right type to a seal
RevealedAssignment(ty, seal) ==
    Assignment("Revealed", seal,
               [type |-> State_Revealed(OwnedRightStrategy(ty)),
                range_proof |-> "none"])

CountAssignments(seals) ==
    SumSeq([ty \in OwnedRightTypes |->
               IF ty \in DOMAIN seals THEN Len(seals[ty]) ELSE 0])

\* The owned rights a node is constructed with: under some of the owned
\* right types, revealed assignments to seals, at most MaxAssignments in all
OwnedRightsSet ==
    UNION {{[ty \in D |->
                TypedAssignments(OwnedRightStrategy(ty),
                    [i \in DOMAIN seals[ty] |->
                        RevealedAssignment(ty, seals[ty][i])])] :
               seals \in {f \in [D -> SeqsUpTo(NodeSeals, MaxAssignments)] :
                              CountAssignments(f) <= MaxAssignments}} :
           D \in SUBSET OwnedRightTypes}

\* The parent owned rights a transition is constructed with (Transition::with
\* takes any map, the empty one included)
ParentOwnedRightsSet ==
    {<<>>,
     << <<NodeId(OtherHash(1)), << <<1, <<0>>>> >> >> >>}

\* The parent public rights an extension is constructed with
ParentPublicRightsSet ==
    {<<>>,
     << <<NodeId(OtherHash(1)), <<1>>>> >>}

Nodes ==
    {Genesis_with(OtherHash(0), 0, <<>>, r, <<1>>) : r \in OwnedRightsSet}
    \cup
    {Extension_with(1, c, <<>>, r, p, <<1>>) :
        c \in {ContractId(OtherHash(n)) : n \in 1..MaxContractId}, r \in OwnedRightsSet, p \in ParentPublicRightsSet}
    \cup
    {Transition_with(1, <<>>, r, <<1>>, p) :
        r \in OwnedRightsSet, p \in ParentOwnedRightsSet}

InitNode ==
    /\ IdleExcept("Node")
    /\ node \in Nodes
    /\ id0 = Node_node_id(node)
    /\ nret = NoCall

ConcealStateExcept ==
    \E seals \in SUBSET SecretSeals :
        LET r == Node_conceal_state_except(node, seals)
        IN  /\ nret.outcome # "panic"
            /\ node' = r.node
            /\ nret' = Call("conceal_state_except", <<seals>>, r.count)
            /\ UNCHANGED id0
            /\ UNCHANGED <<wposVars, wordVars, sealVars, stateVars>>

ConcealSeals ==
    \E seals \in SUBSET SecretSeals :
        LET r == Node_conceal_seals(node, seals)
        IN  /\ nret.outcome # "panic"
            /\ node' = r.node
            /\ nret' = Call("conceal_seals", <<seals>>, r.count)
            /\ UNCHANGED id0
            /\ UNCHANGED <<wposVars, wordVars, sealVars, stateVars>>

ParentOwnedRights ==
    /\ nret.outcome # "panic"
    /\ nret' = Node_parent_owned_rights(node)
    /\ UNCHANGED <<node, id0>>
    /\ UNCHANGED <<wposVars, wordVars, sealVars, stateVars>>

ParentPublicRights ==
    /\ nret.outcome # "panic"
    /\ nret' = Node_parent_public_rights(node)
    /\ UNCHANGED <<node, id0>>
    /\ UNCHANGED <<wposVars, wordVars, sealVars, stateVars>>

\* node.contract_id(), beside node.node_id() of the same node
GetContractId ==
    /\ nret.outcome # "panic"
    /\ nret' = Call("contract_id", <<>>,
                    [contract_id |-> Node_contract_id(node),
                     node_id |-> Node_node_id(node)])
    /\ UNCHANGED <<node, id0>>
    /\ UNCHANGED <<wposVars, wordVars, sealVars, stateVars>>

\* genesis.contract_id() (inherent), beside genesis.node_id()
GetGenesisContractId ==
    /\ nret.outcome # "panic"
    /\ node.kind = "Genesis"
    /\ nret' = Call("Genesis::contract_id", <<>>,
                    [contract_id |-> Genesis_contract_id(node),
                     node_id |-> Node_node_id(node)])
    /\ UNCHANGED <<node, id0>>
    /\ UNCHANGED <<wposVars, wordVars, sealVars, stateVars>>

RevealedSeals ==
    /\ nret.outcome # "panic"
    /\ nret' = Call("revealed_seals", <<>>, Node_revealed_seals(node))
    /\ UNCHANGED <<node, id0>>
    /\ UNCHANGED <<wposVars, wordVars, sealVars, stateVars>>

FilterRevealedSeals ==
    /\ nret.outcome # "panic"
    /\ nret' = Call("filter_revealed_seals", <<>>,
                    Node_filter_revealed_seals(node))
    /\ UNCHANGED <<node, id0>>
    /\ UNCHANGED <<wposVars, wordVars, sealVars, stateVars>>

NextNode ==
    \/ RevealedSeals
    \/ FilterRevealedSeals
    \/ ConcealStateExcept
    \/ ConcealSeals
    \/ ParentOwnedRights
    \/ ParentPublicRights
    \/ GetContractId
    \/ GetGenesisContractId

SpecNode == InitNode /\ [][NextNode]_vars

(***************************************************************************)
(* Parent outputs of a node: the default methods of the Node trait that    *)
(* flatten parent_owned_rights() into NodeOutpoints                        *)
(***************************************************************************)
MaxParents == 2

MaxOutputNo == 1

MaxParentOutputs == 2

MaxTypes == 2

\* NodeOutpoint { node_id, ty, no }
NodeOutpoint(node_id, ty, no) == [node_id |-> node_id, ty |-> ty, no |-> no]

\* map.iter().flat_map(|(ty, vec)| vec.iter().map(|no| (*ty, *no)))
\*    .map(move |(ty, no)| NodeOutpoint { node_id, ty, no })
flat_map_outputs(node_id, map) ==
    Concat([j \in DOMAIN map |->
               [k \in DOMAIN map[j][2] |->
                   NodeOutpoint(node_id, map[j][1], map[j][2][k])]])

Node_parent_outputs_by_types_NoFilter(n, types) ==
    LET r == Node_parent_owned_rights(n)
    IN  IF r.outcome = "panic"
        THEN Panic("parent_outputs_by_types", <<types>>, r.result)
        ELSE Call("parent_outputs_by_types", <<types>>,
                  Concat([i \in DOMAIN r.result |->
                      flat_map_outputs(r.result[i][1], r.result[i][2])]))

\* Node::parent_outputs_by_types: a panic of parent_owned_rights() unwinds
\* through the caller
Node_parent_outputs_by_types(n, types) ==
    LET r == Node_parent_owned_rights(n)
    IN  IF r.outcome = "panic"
        THEN Panic("parent_outputs_by_types", <<types>>, r.result)
        ELSE Call("parent_outputs_by_types", <<types>>,
                  Concat([i \in DOMAIN r.result |->
                      flat_map_outputs(r.result[i][1],
                          SelectSeq(r.result[i][2],
                                    LAMBDA e : contains(types, e[1])))]))

\* Node::parent_outputs_by_type
Node_parent_outputs_by_type(n, t) ==
    [Node_parent_outputs_by_types(n, <<t>>)
        EXCEPT !.op = "parent_outputs_by_type", !.args = <<t>>]

\* Node::parent_outputs
Node_parent_outputs(n) ==
    LET r == Node_parent_owned_rights(n)
    IN  IF r.outcome = "panic"
        THEN Panic("parent_outputs", <<>>, r.result)
        ELSE Call("parent_outputs", <<>>,
                  Concat([i \in DOMAIN r.result |->
                      flat_map_outputs(r.result[i][1], r.result[i][2])]))

(***************************************************************************)
(* SpecParents: one of the parent-output methods is called on a node       *)
(***************************************************************************)
\* The ParentOwnedRights map holding the references of refs: parents and
\* types ascending, the output numbers of a type in the order of refs
ParentOwnedRights_from(refs) ==
    LET ids == Ascending({refs[i].id : i \in DOMAIN refs})
        tys(p) == Ascending({refs[i].ty : i \in {j \in DOMAIN refs : refs[j].id = p}})
        vec(p, ty) ==
            LET sel == SelectSeq(refs, LAMBDA e : e.id = p /\ e.ty = ty)
            IN  [k \in DOMAIN sel |-> sel[k].no]
    IN  [i \in DOMAIN ids |->
            <<NodeId(OtherHash(ids[i])),
              [j \in DOMAIN tys(ids[i]) |->
                  <<tys(ids[i])[j], vec(ids[i], tys(ids[i])[j])>>]>>]

\* Parent owned rights of up to MaxParentOutputs references, and maps with
\* an empty entry (the collection types have no minimum length)
RichParentOwnedRightsSet ==
    {ParentOwnedRights_from(refs) :
        refs \in {<<>>} \cup SeqsUpTo([id : 1..MaxParents, ty : OwnedRightTypes,
                                            no : 0..MaxOutputNo],
                                           MaxParentOutputs)}
    \cup
    {<< <<NodeId(OtherHash(1)), <<>>>> >>,
     << <<NodeId(OtherHash(1)), << <<1, <<>>>>, <<2, <<0>>>> >> >> >>}

ParentNodes ==
    {Genesis_with(OtherHash(0), 0, <<>>, <<>>, <<1>>)}
    \cup
    {Extension_with(1, c, <<>>, <<>>, p, <<1>>) :
        c \in {ContractId(OtherHash(n)) : n \in 1..MaxContractId}, p \in ParentPublicRightsSet}
    \cup
    {Transition_with(1, <<>>, <<>>, <<1>>, p) : p \in RichParentOwnedRightsSet}

InitParents ==
    /\ IdleExcept("Node")
    /\ node \in ParentNodes
    /\ id0 = Node_node_id(node)
    /\ nret = NoCall

ParentOutputs ==
    /\ nret = NoCall
    /\ nret' = Node_parent_outputs(node)
    /\ UNCHANGED <<node, id0>>
    /\ UNCHANGED <<wposVars, wordVars, sealVars, stateVars>>

ParentOutputsByTypes ==
    \E types \in {<<>>} \cup SeqsUpTo(OwnedRightTypes, MaxTypes) :
        /\ nret = NoCall
        /\ nret' = Node_parent_outputs_by_types(node, types)
        /\ UNCHANGED <<node, id0>>
        /\ UNCHANGED <<wposVars, wordVars, sealVars, stateVars>>

ParentOutputsByType ==
    \E t \in OwnedRightTypes :
        /\ nret = NoCall
        /\ nret' = Node_parent_outputs_by_type(node, t)
        /\ UNCHANGED <<node, id0>>
        /\ UNCHANGED <<wposVars, wordVars, sealVars, stateVars>>

NextParents ==
    \/ ParentOutputs
    \/ ParentOutputsByTypes
    \/ ParentOutputsByType

SpecParents == InitParents /\ [][NextParents]_vars

(***************************************************************************)
(* SpecWitnessId: three witness ids are compared.  A txid is a number;     *)
(* the order of the numbers stands for the order of the 32 bytes.          *)
(***************************************************************************)
WitnessId_cmp_BitcoinFirst(a, b) ==
    IF a.layer1 = "Bitcoin" /\ b.layer1 = "Liquid" THEN "Less"
    ELSE IF a.layer1 = "Liquid" /\ b.layer1 = "Bitcoin" THEN "Greater"
    ELSE IntCmp(a.txid, b.txid)

\* impl Ord for WitnessId
WitnessId_cmp(a, b) ==
    IF a.layer1 = "Bitcoin" /\ b.layer1 = "Liquid" THEN "Greater"
    ELSE IF a.layer1 = "Liquid" /\ b.layer1 = "Bitcoin" THEN "Less"
    ELSE IntCmp(a.txid, b.txid)

InitWitnessId ==
    /\ IdleExcept("WitnessOrd")
    /\ ordA \in WitnessIds
    /\ ordB \in WitnessIds
    /\ ordC \in WitnessIds
    /\ ordering = None

\* eq is #[derive(PartialEq, Eq)] on WitnessId: same variant, equal txid
CompareWitnessIds ==
    /\ ordering = None
    /\ ordering' = Some([ab |-> WitnessId_cmp(ordA, ordB),
                         ba |-> WitnessId_cmp(ordB, ordA),
                         bc |-> WitnessId_cmp(ordB, ordC),
                         ac |-> WitnessId_cmp(ordA, ordC),
                         aa |-> WitnessId_cmp(ordA, ordA),
                         eq |-> ordA.layer1 = ordB.layer1
                                    /\ ordA.txid = ordB.txid])
    /\ UNCHANGED <<ordA, ordB, ordC>>
    /\ UNCHANGED <<wposVars, sealVars, stateVars, nodeVars>>

NextWitnessId == CompareWitnessIds

SpecWitnessId == InitWitnessId /\ [][NextWitnessId]_vars

(***************************************************************************)
(* Text of a NodeOutpoint, "{node_id}/{ty}/{no}".  A text is the sequence  *)
(* of its pieces: each separator "/" is a piece of its own, every other    *)
(* piece is a maximal run of characters holding no separator.              *)
(***************************************************************************)
MaxTextLen == 7

\* str::split('/'): the parts between the separators, empty parts included
RECURSIVE split(_)
split(text) ==
    IF \E i \in DOMAIN text : text[i] = "/"
    THEN LET i == CHOOSE k \in DOMAIN text :
                      /\ text[k] = "/"
                      /\ \A j \in 1..(k - 1) : text[j] # "/"
         IN  <<SubSeq(text, 1, i - 1)>> \o split(SubSeq(text, i + 1, Len(text)))
    ELSE <<text>>

NodeOutpoint_from_str_AtLeastTwoSeparators(s) ==
    LET parts == split(s)
        node_id == IF parts[1] = <<"9f9f">>
                   THEN Ok(NodeId(OtherHash(1))) ELSE Err("hex::Error")
        u16(part) == IF Len(part) = 1 /\ \E n \in 0..MaxOwnedRightType :
                                            ToString(n) = part[1]
                     THEN Ok(CHOOSE n \in 0..MaxOwnedRightType :
                                 ToString(n) = part[1])
                     ELSE Err("ParseIntError")
    IN  IF Len(parts) >= 3
        THEN IF ~node_id.ok
             THEN Err([kind |-> "InvalidNodeId", inner |-> node_id.err])
             ELSE IF ~u16(parts[2]).ok
             THEN Err([kind |-> "InvalidType", inner |-> u16(parts[2]).err])
             ELSE IF ~u16(parts[3]).ok
             THEN Err([kind |-> "InvalidOutputNo", inner |-> u16(parts[3]).err])
             ELSE Ok(NodeOutpoint(node_id.value, u16(parts[2]).value,
                                  u16(parts[3]).value))
        ELSE Err([kind |-> "WrongFormat", text |-> s])

\* FromStr for NodeOutpoint: from_str.  NodeId::from_str reads the hex of the
\* 32 bytes ("9f9f" stands for the hex of a node id), u16::from_str a number
NodeOutpoint_from_str(s) ==
    LET parts == split(s)
        next(k) == IF k <= Len(parts) THEN Some(parts[k]) ELSE None
        node_id == IF parts[1] = <<"9f9f">>
                   THEN Ok(NodeId(OtherHash(1))) ELSE Err("hex::Error")
        u16(part) == IF Len(part) = 1 /\ \E n \in 0..MaxOwnedRightType :
                                            ToString(n) = part[1]
                     THEN Ok(CHOOSE n \in 0..MaxOwnedRightType :
                                 ToString(n) = part[1])
                     ELSE Err("ParseIntError")
    IN  IF next(1) # None /\ next(2) # None /\ next(3) # None /\ next(4) = None
        THEN IF ~node_id.ok
             THEN Err([kind |-> "InvalidNodeId", inner |-> node_id.err])
             ELSE IF ~u16(parts[2]).ok
             THEN Err([kind |-> "InvalidType", inner |-> u16(parts[2]).err])
             ELSE IF ~u16(parts[3]).ok
             THEN Err([kind |-> "InvalidOutputNo", inner |-> u16(parts[3]).err])
             ELSE Ok(NodeOutpoint(node_id.value, u16(parts[2]).value,
                                  u16(parts[3]).value))
        ELSE Err([kind |-> "WrongFormat", text |-> s])

(***************************************************************************)
(* SpecOutpoint: a text is parsed as a NodeOutpoint                        *)
(***************************************************************************)
InitOutpoint ==
    /\ IdleExcept("Node")
    /\ node = None
    /\ id0 = None
    /\ nret = NoCall

\* The texts of up to MaxTextLen pieces
ParseNodeOutpoint ==
    \E text \in {t \in {<<>>} \cup SeqsUpTo({"/", "9f9f", "1", "x"}, MaxTextLen) :
                    \A i \in 1..(Len(t) - 1) : t[i] = "/" \/ t[i + 1] = "/"} :
        /\ nret = NoCall
        /\ nret' = Call("NodeOutpoint::from_str", <<text>>,
                        NodeOutpoint_from_str(text))
        /\ UNCHANGED <<node, id0>>
        /\ UNCHANGED <<wposVars, wordVars, sealVars, stateVars>>

NextOutpoint == ParseNodeOutpoint

SpecOutpoint == InitOutpoint /\ [][NextOutpoint]_vars

(***************************************************************************)
(* C1.  For every Genesis, Transition and Extension n and every list of    *)
(* seals, node_id(n) is the same before and after conceal_state_except and *)
(* conceal_seals: concealing the state or the seals of the node's          *)
(* assignments, in any number and order of calls, never changes the node's *)
(* commitment identifier.                                                  *)
(***************************************************************************)
C1_NodeIdStableUnderConceal == node # None => Node_node_id(node) = id0

(***************************************************************************)
(* C2.  Calling parent_owned_rights() on a Genesis or an Extension, or     *)
(* parent_public_rights() on a Genesis or a Transition, never panics: the  *)
(* call returns normally.                                                  *)
(***************************************************************************)
C2_ParentRightsNeverPanic ==
    /\ (nret.op = "parent_owned_rights" /\ node.kind \in {"Genesis", "Extension"})
           => nret.outcome = "returned"
    /\ (nret.op = "parent_public_rights" /\ node.kind \in {"Genesis", "Transition"})
           => nret.outcome = "returned"

(***************************************************************************)
(* C3.  XSeal::try_to_output_seal(witness_id) returns Ok iff the seal's    *)
(* layer 1 equals the witness id's; on Ok the result has the layer 1 and   *)
(* close method of the seal and the outpoint of the seal, with the witness *)
(* txid in place of the placeholder; on a layer mismatch it returns an     *)
(* error (carrying the seal back) and produces no outpoint.                *)
(***************************************************************************)
C3_TryToOutputSeal ==
    sret.op = "try_to_output_seal" =>
        LET s == sret.args[1]
            w == sret.args[2]
            r == sret.result
        IN  /\ r.ok <=> (s.layer1 = w.layer1)
            /\ r.ok =>
                /\ r.value.layer1 = s.layer1
                /\ r.value.seal.method = s.seal.method
                /\ r.value.seal.vout = s.seal.vout
                /\ s.seal.txid.tag = "Txid" =>
                       r.value.seal.txid = s.seal.txid.txid
                /\ s.seal.txid.tag = "WitnessTx" =>
                       r.value.seal.txid = w.txid
                /\ DOMAIN r.value.seal = {"method", "txid", "vout"}
            /\ ~r.ok =>
                /\ DOMAIN r = {"ok", "err"}
                /\ r.err = s

C3_Witness ==
    /\ sret.op = "try_to_output_seal"
    /\ sret.args[1].layer1 = "Liquid"
    /\ sret.args[1].seal.txid = WitnessTx
    /\ sret.args[2] = WitnessId("Liquid", 2)
    /\ sret.result.ok
    /\ sret.result.value.seal.txid = 2

(***************************************************************************)
(* C4.  StateSchema::validate(node_id, assignment_id, a) adds a            *)
(* SchemaMismatchedStateType(assignment_id) failure if and only if the     *)
(* state strategy of the assignment differs from the strategy of the       *)
(* schema, for each of the four assignment forms; when the strategies      *)
(* match, no SchemaMismatchedStateType failure is added.                   *)
(***************************************************************************)
C4_MismatchIffStrategiesDiffer ==
    status # None =>
        LET mismatches ==
                {i \in DOMAIN status[1].failures :
                    status[1].failures[i].kind = "SchemaMismatchedStateType"}
        IN  /\ (mismatches # {}) <=> (vargs.data.strategy # schema)
            /\ \A i \in mismatches :
                   status[1].failures[i] =
                       [kind |-> "SchemaMismatchedStateType",
                        assignment_id |-> vargs.assignment_id]
            /\ Cardinality(mismatches) <= 1

C4_Witness ==
    /\ status # None
    /\ schema = "Arithmetic"
    /\ vargs.data.strategy = "Declarative"
    /\ vargs.data.form = "Revealed"
    /\ vargs.assignment_id = 1
    /\ status[1].failures =
           <<[kind |-> "SchemaMismatchedStateType", assignment_id |-> 1]>>

(***************************************************************************)
(* C5.  StateSchema::validate adds an InvalidBulletproofs(node_id,         *)
(* assignment_id, err) failure if and only if the schema is Arithmetic,    *)
(* the assignment carries a confidential arithmetic (Pedersen) state       *)
(* (forms Confidential or ConfidentialState) and its range proof is        *)
(* rejected; under an Arithmetic schema a confidential arithmetic state    *)
(* whose proof verifies, and every revealed arithmetic state, yields a     *)
(* status with no failure.                                                 *)
(***************************************************************************)
C5_InvalidBulletproofsIffProofRejected ==
    status # None =>
        LET d == vargs.data
            bulletproofs ==
                {i \in DOMAIN status[1].failures :
                    status[1].failures[i].kind = "InvalidBulletproofs"}
            rejected ==
                /\ schema = "Arithmetic"
                /\ d.form \in {"Confidential", "ConfidentialState"}
                /\ d.strategy = "Arithmetic"
                /\ d.state.range_proof = "invalid"
        IN  /\ (bulletproofs # {}) <=> rejected
            /\ \A i \in bulletproofs :
                   /\ status[1].failures[i].node_id = vargs.node_id
                   /\ status[1].failures[i].assignment_id = vargs.assignment_id
            /\ (schema = "Arithmetic" /\ d.strategy = "Arithmetic" /\ ~rejected)
                   => status[1].failures = <<>>

C5_Witness ==
    /\ status # None
    /\ schema = "Arithmetic"
    /\ vargs.data.form = "ConfidentialState"
    /\ vargs.data.strategy = "Arithmetic"
    /\ vargs.data.state.range_proof = "invalid"
    /\ Len(status[1].failures) = 1
    /\ status[1].failures[1].kind = "InvalidBulletproofs"
    /\ status[1].failures[1].node_id = vargs.node_id

(***************************************************************************)
(* C6.  Node::contract_id() returns Some(id) whose bytes equal the bytes   *)
(* of node_id() for every Genesis, Some of the stored contract_id field    *)
(* for every Extension, and None for every Transition; the inherent        *)
(* Genesis::contract_id() returns the same bytes as Genesis node_id().     *)
(***************************************************************************)
C6_ContractId ==
    /\ nret.op = "contract_id" =>
        LET c == nret.result.contract_id
        IN  /\ node.kind = "Genesis" =>
                /\ c # None
                /\ c[1].type = "ContractId"
                /\ c[1].bytes = nret.result.node_id.bytes
            /\ node.kind = "Extension" => c = Some(node.contract_id)
            /\ node.kind = "Transition" => c = None
    /\ nret.op = "Genesis::contract_id" =>
        /\ nret.result.contract_id.type = "ContractId"
        /\ nret.result.contract_id.bytes = nret.result.node_id.bytes

C6_Witness ==
    /\ nret.op = "contract_id"
    /\ node.kind = "Extension"
    /\ node.contract_id = ContractId(OtherHash(2))
    /\ nret.result.contract_id = Some(ContractId(OtherHash(2)))
    /\ nret.result.contract_id[1].bytes # nret.result.node_id.bytes

C8_WitnessPosInvariant ==
    /\ pos # None =>
        /\ pos[1].height >= 1
        /\ pos[1].timestamp >= BitcoinGenesisTime
    /\ wret.op = "height" => wret.outcome = "returned"

(***************************************************************************)
(* C9.  WitnessPos::new(height, timestamp) returns None if and only if     *)
(* height = 0 or timestamp < 1231006505; otherwise it returns Some         *)
(* position holding exactly the given height and timestamp: (1,1231006505) *)
(* is accepted, (1, 1231006504) and (0, t) are rejected.                   *)
(***************************************************************************)
C9_NewAcceptsExactlyValid ==
    wret.op = "new" =>
        LET h == wret.args[1]
            t == wret.args[2]
        IN  /\ (wret.result = None) <=> (h = 0 \/ t < 1231006505)
            /\ wret.result # None =>
                /\ wret.result[1].height = h
                /\ wret.result[1].timestamp = t
            /\ (h = 1 /\ t = 1231006504) => wret.result = None
            /\ (h = 1 /\ t = 1231006505) => wret.result # None

C9_Witness ==
    /\ wret.op = "new"
    /\ wret.args = <<1, 1231006505>>
    /\ wret.result = Some(WitnessPos(1, 1231006505))
    /\ pos = wret.result

(***************************************************************************)
(* C10.  The comparison on WitnessOrd (and on the WitnessPos it wraps) is  *)
(* a total order: reflexive, transitive, total, and antisymmetric with     *)
(* respect to value equality (cmp returns Equal exactly for equal values); *)
(* two OnChain values are ordered by their timestamps.                     *)
(***************************************************************************)
C10_WitnessOrdTotalOrder ==
    ordering # None =>
        LET o == ordering[1]
            le(c) == c \in {"Less", "Equal"}
        IN  /\ o.aa = "Equal"
            /\ (le(o.ab) /\ le(o.bc)) => le(o.ac)
            /\ le(o.ab) \/ le(o.ba)
            /\ (le(o.ab) /\ le(o.ba)) => o.eq
            /\ (o.ab = "Equal") <=> o.eq
            /\ (ordA.tag = "OnChain" /\ ordB.tag = "OnChain") =>
                   o.ab = IntCmp(ordA.pos.timestamp, ordB.pos.timestamp)

(***************************************************************************)
(* C11.  For every WitnessPos p, WitnessOrd::OnChain(p) < OffChain: the    *)
(* off-chain value is strictly greater than every on-chain value, whatever *)
(* the height and timestamp of p.                                          *)
(***************************************************************************)
C11_OnChainBelowOffChain ==
    ordering # None =>
        /\ (ordA.tag = "OnChain" /\ ordB.tag = "OffChain") =>
               /\ ordering[1].ab = "Less"
               /\ ordering[1].ba = "Greater"
               /\ ~ordering[1].eq
        /\ (ordB.tag = "OnChain" /\ ordC.tag = "OffChain") =>
               ordering[1].bc = "Less"

C11_Witness ==
    /\ ordering # None
    /\ ordA = OnChain(WitnessPos(MaxHeight, BitcoinGenesisTime + TimeSpan))
    /\ ordB = OffChain
    /\ ordering[1].ab = "Less"
    /\ ordering[1].ba = "Greater"

(***************************************************************************)
(* C12.  Node::parent_outputs() returns an empty list for every Genesis    *)
(* and for every Extension, and returns normally in both cases.            *)
(***************************************************************************)
C12_ParentOutputsEmptyForGenesisAndExtension ==
    (nret.op = "parent_outputs" /\ node.kind \in {"Genesis", "Extension"}) =>
        /\ nret.outcome = "returned"
        /\ nret.result = <<>>

(***************************************************************************)
(* C13.  XSeal::to_output_seal() returns Some explicit-outpoint seal if    *)
(* and only if the seal's txid is concrete, and None when the txid is the  *)
(* witness placeholder; when it returns Some, the result keeps the seal's  *)
(* layer-1 variant, its close method and its (txid, vout) outpoint.        *)
(***************************************************************************)
C13_ToOutputSeal ==
    sret.op = "to_output_seal" =>
        LET s == sret.args[1]
            r == sret.result
        IN  /\ (r # None) <=> (s.seal.txid.tag = "Txid")
            /\ (s.seal.txid = WitnessTx) => r = None
            /\ r # None =>
                /\ r[1].layer1 = s.layer1
                /\ r[1].seal.method = s.seal.method
                /\ r[1].seal.txid = s.seal.txid.txid
                /\ r[1].seal.vout = s.seal.vout
                /\ DOMAIN r[1].seal = {"method", "txid", "vout"}

C13_Witness ==
    /\ sret.op = "to_output_seal"
    /\ sret.args[1].layer1 = "Liquid"
    /\ sret.args[1].seal.txid = TxPtr(MaxTxid)
    /\ sret.result # None
    /\ sret.result[1].layer1 = "Liquid"
    /\ sret.result[1].seal.txid = MaxTxid

(***************************************************************************)
(* C14.  StateSchema::validate on a Structured schema and an assignment    *)
(* whose state is a confidential structured (hash) value (forms            *)
(* Confidential or ConfidentialState) adds exactly one info entry          *)
(* UncheckableConfidentialStateData(node_id, assignment_id) and no         *)
(* failure, so the returned status is valid.                               *)
(***************************************************************************)
C14_UncheckableConfidentialStateData ==
    (/\ status # None
     /\ schema = "Structured"
     /\ vargs.data.form \in {"Confidential", "ConfidentialState"}
     /\ vargs.data.strategy = "Structured") =>
        /\ Len(status[1].infos) = 1
        /\ status[1].infos[1].kind = "UncheckableConfidentialStateData"
        /\ status[1].infos[1].node_id = vargs.node_id
        /\ status[1].infos[1].assignment_id = vargs.assignment_id
        /\ status[1].failures = <<>>
        /\ is_valid(status[1])

C14_Witness ==
    /\ status # None
    /\ schema = "Structured"
    /\ vargs.data.form = "Confidential"
    /\ vargs.data.strategy = "Structured"
    /\ vargs.node_id = MaxNodeId
    /\ vargs.assignment_id = MaxAssignmentId
    /\ status[1].infos =
           <<[kind |-> "UncheckableConfidentialStateData",
              node_id |-> MaxNodeId, assignment_id |-> MaxAssignmentId]>>
    /\ status[1].failures = <<>>

(***************************************************************************)
(* C15.  StateSchema::validate on a Structured schema and an assignment    *)
(* whose state is a revealed structured value of the matching strategy     *)
(* (forms Revealed or ConfidentialSeal) adds an informational entry to the *)
(* status recording that strict-type validation was not performed, and     *)
(* adds no failure.                                                        *)
(***************************************************************************)
C15_RevealedStructuredAddsInfo ==
    (/\ status # None
     /\ schema = "Structured"
     /\ vargs.data.form \in {"Revealed", "ConfidentialSeal"}
     /\ vargs.data.strategy = "Structured") =>
        /\ status[1].infos # <<>>
        /\ status[1].failures = <<>>

(***************************************************************************)
(* C16.  Every entry (failure or info) that StateSchema::validate(node_id, *)
(* assignment_id, a) puts into the returned Status carries the node_id and *)
(* the assignment_id the call was made with, for every schema strategy and *)
(* every assignment form.                                                  *)
(***************************************************************************)
C16_EntriesCarryNodeAndAssignment ==
    status # None =>
        \A entries \in {status[1].failures, status[1].warnings, status[1].infos} :
            \A i \in DOMAIN entries :
                /\ "assignment_id" \in DOMAIN entries[i]
                /\ entries[i].assignment_id = vargs.assignment_id
                /\ "node_id" \in DOMAIN entries[i]
                /\ entries[i].node_id = vargs.node_id

(***************************************************************************)
(* C17.  Node::revealed_seals() returns Err("ConfidentialDataError") if and  *)
(* only if at least one assignment under some owned-right type of the node *)
(* has a concealed seal; otherwise it returns Ok with the revealed seals   *)
(* of all assignments, grouped in ascending owned-right-type order.        *)
(* Node::filter_revealed_seals() never fails and returns exactly the seals *)
(* of the assignments whose seal is revealed, so whenever revealed_seals() *)
(* is Ok(v), v equals filter_revealed_seals().                             *)
(***************************************************************************)
C17_RevealedSeals ==
    LET rights == node.owned_rights
        sealRevealed(a) == a.form \in {"Revealed", "ConfidentialState"}
        someConcealed ==
            \E ty \in DOMAIN rights : \E i \in DOMAIN rights[ty].items :
                ~sealRevealed(rights[ty].items[i])
        revealedOf(ty) ==
            LET sel == SelectSeq(rights[ty].items, sealRevealed)
            IN  [i \in DOMAIN sel |-> sel[i].seal]
        revealed ==
            Concat([ty \in OwnedRightTypes |->
                       IF ty \in DOMAIN rights THEN revealedOf(ty) ELSE <<>>])
    IN  /\ nret.op = "revealed_seals" =>
            /\ nret.outcome = "returned"
            /\ ~nret.result.ok <=> someConcealed
            /\ ~nret.result.ok => nret.result.err = "ConfidentialDataError"
            /\ nret.result.ok =>
                /\ nret.result.value = revealed
                /\ nret.result.value = Node_filter_revealed_seals(node)
        /\ nret.op = "filter_revealed_seals" =>
            /\ nret.outcome = "returned"
            /\ nret.result = revealed
            /\ \A i \in DOMAIN nret.result : nret.result[i] \in XSeals

C17_Witness ==
    /\ nret.op = "revealed_seals"
    /\ ~nret.result.ok
    /\ Cardinality(DOMAIN node.owned_rights) = 2
    /\ \E ty \in DOMAIN node.owned_rights :
           node.owned_rights[ty].items[1].form = "ConfidentialSeal"
    /\ Len(Node_filter_revealed_seals(node)) = 1

(***************************************************************************)
(* C18.  Every Transition value the program can hold (built with           *)
(* Transition::with or obtained by strict decoding) has at least one       *)
(* parent owned right: its parent_owned_rights map is non-empty.           *)
(***************************************************************************)
C18_TransitionHasParentOwnedRight ==
    (node # None /\ node.kind = "Transition") =>
        /\ Len(node.parent_owned_rights) >= 1
        /\ nret.op = "parent_owned_rights" => Len(nret.result) >= 1

(***************************************************************************)
(* C19.  For every Transition, parent_outputs() contains exactly one       *)
(* NodeOutpoint (node_id, ty, no) for each output index no listed under    *)
(* owned-right type ty of parent node_id in parent_owned_rights, and       *)
(* nothing else; parent_outputs_by_types(types) equals parent_outputs()    *)
(* restricted to the outpoints whose type is in types, in the same order,  *)
(* and parent_outputs_by_type(t) equals parent_outputs_by_types([t]).      *)
(***************************************************************************)
C19_ParentOutputsOfTransition ==
    (node # None /\ node.kind = "Transition") =>
        LET parents == node.parent_owned_rights
            listed(id, ty, no) ==
                Cardinality({ijk \in (DOMAIN parents) \X (1..MaxOwnedRightType)
                                     \X (1..(MaxParentOutputs + 1)) :
                    /\ parents[ijk[1]][1] = id
                    /\ ijk[2] \in DOMAIN parents[ijk[1]][2]
                    /\ parents[ijk[1]][2][ijk[2]][1] = ty
                    /\ ijk[3] \in DOMAIN parents[ijk[1]][2][ijk[2]][2]
                    /\ parents[ijk[1]][2][ijk[2]][2][ijk[3]] = no})
            all == Node_parent_outputs(node).result
            outpoints ==
                {NodeOutpoint(NodeId(OtherHash(p)), ty, no) :
                    p \in 1..MaxParents, ty \in OwnedRightTypes,
                    no \in 0..MaxOutputNo}
        IN  /\ nret.op = "parent_outputs" =>
                /\ nret.outcome = "returned"
                /\ \A i \in DOMAIN nret.result : nret.result[i] \in outpoints
                /\ \A o \in outpoints :
                       Cardinality({i \in DOMAIN nret.result : nret.result[i] = o})
                           = listed(o.node_id, o.ty, o.no)
            /\ nret.op = "parent_outputs_by_types" =>
                /\ nret.outcome = "returned"
                /\ nret.result =
                       SelectSeq(all, LAMBDA o :
                           \E i \in DOMAIN nret.args[1] : nret.args[1][i] = o.ty)
            /\ nret.op = "parent_outputs_by_type" =>
                /\ nret.outcome = "returned"
                /\ nret.result =
                       Node_parent_outputs_by_types(node, <<nret.args[1]>>).result
                /\ nret.result = SelectSeq(all, LAMBDA o : o.ty = nret.args[1])

C19_Witness ==
    /\ node.kind = "Transition"
    /\ Len(node.parent_owned_rights) = 2
    /\ nret.op = "parent_outputs_by_types"
    /\ nret.args[1] = <<2>>
    /\ Len(nret.result) = 1
    /\ nret.result[1].ty = 2
    /\ Len(Node_parent_outputs(node).result) = 2

(***************************************************************************)
(* C20.  For every inner seal u, parsing the bare text of u (its textual   *)
(* form with no layer-1 prefix in front) with XSeal::from_str yields       *)
(* XSeal::Bitcoin(u); the text "bitcoin:" followed by u yields             *)
(* XSeal::Bitcoin(u) and the text "liquid:" followed by u yields           *)
(* XSeal::Liquid(u).                                                       *)
(***************************************************************************)
C20_FromStr ==
    sret.op = "from_str" =>
        LET u == xseal.seal
            text == sret.args[1]
        IN  /\ text = Seal_to_string(u) =>
                sret.result = Ok(XSeal("Bitcoin", u))
            /\ text = <<"bitcoin", ":">> \o Seal_to_string(u) =>
                sret.result = Ok(XSeal("Bitcoin", u))
            /\ text = <<"liquid", ":">> \o Seal_to_string(u) =>
                sret.result = Ok(XSeal("Liquid", u))

(***************************************************************************)
(* C21.  XSeal::from_str on a text p:rest whose prefix p (the text before  *)
(* the first ':') is neither "bitcoin" nor "liquid" fails with             *)
(* UnknownPrefix(p), carrying exactly that prefix, without trying to parse *)
(* rest ("xyz:deadbeef" fails with UnknownPrefix("xyz")); a failure to     *)
(* parse the inner seal after a known prefix is reported as the Seal       *)
(* error, never as UnknownPrefix.                                          *)
(***************************************************************************)
C21_UnknownPrefix ==
    sret.op = "from_str" =>
        LET text == sret.args[1]
            colons == {i \in DOMAIN text : text[i] = ":"}
            first == CHOOSE i \in colons : \A j \in colons : i <= j
            p == SubSeq(text, 1, first - 1)
            rest == SubSeq(text, first + 1, Len(text))
            known == p \in {<<"bitcoin">>, <<"liquid">>}
            r == sret.result
        IN  /\ (colons # {} /\ ~known) =>
                /\ ~r.ok
                /\ r.err = [kind |-> "UnknownPrefix", prefix |-> p]
            /\ (colons # {} /\ known /\ ~Seal_from_str(rest).ok) =>
                /\ ~r.ok
                /\ r.err.kind = "Seal"
            /\ (~r.ok /\ r.err.kind = "UnknownPrefix") => (colons # {} /\ ~known)
            /\ text = <<"xyz", ":", "deadbeef">> =>
                r = Err([kind |-> "UnknownPrefix", prefix |-> <<"xyz">>])

C21_Witness ==
    /\ sret.op = "from_str"
    /\ sret.args[1] = <<"xyz", ":">> \o Seal_to_string(xseal.seal)
    /\ sret.result = Err(UnknownPrefix(<<"xyz">>))

(***************************************************************************)
(* C22.  NodeOutpoint::from_str(s) fails with WrongFormat(s) for every     *)
(* text s that does not contain exactly two '/' separators (fewer, as in   *)
(* "a/b", or more, as in "a/b/c/d"), and never returns WrongFormat for a   *)
(* text with exactly two separators: then the three parts are parsed as    *)
(* node id, owned-right type and output number, and a part that fails to   *)
(* parse yields InvalidNodeId, InvalidType or InvalidOutputNo              *)
(* respectively.                                                           *)
(***************************************************************************)
C22_NodeOutpointFromStr ==
    nret.op = "NodeOutpoint::from_str" =>
        LET s == nret.args[1]
            separators == Cardinality({i \in DOMAIN s : s[i] = "/"})
            r == nret.result
            first == CHOOSE i \in DOMAIN s : s[i] = "/"
            last == CHOOSE i \in DOMAIN s : s[i] = "/" /\ i # first
            lo == IF first < last THEN first ELSE last
            hi == IF first < last THEN last ELSE first
            idText == SubSeq(s, 1, lo - 1)
            tyText == SubSeq(s, lo + 1, hi - 1)
            noText == SubSeq(s, hi + 1, Len(s))
            idOk == idText = <<"9f9f">>
            numOk(t) == t = <<"1">>
        IN  /\ separators # 2 =>
                r = Err([kind |-> "WrongFormat", text |-> s])
            /\ separators = 2 =>
                /\ r.ok <=> (idOk /\ numOk(tyText) /\ numOk(noText))
                /\ ~r.ok =>
                    /\ r.err.kind # "WrongFormat"
                    /\ r.err.kind = "InvalidNodeId" <=> ~idOk
                    /\ r.err.kind = "InvalidType" <=> (idOk /\ ~numOk(tyText))
                    /\ r.err.kind = "InvalidOutputNo" <=>
                           (idOk /\ numOk(tyText) /\ ~numOk(noText))
                /\ r.ok => r.value = NodeOutpoint(NodeId(OtherHash(1)), 1, 1)

C22_Witness ==
    /\ nret.op = "NodeOutpoint::from_str"
    /\ nret.args[1] = <<"9f9f", "/", "1", "/", "1", "/", "1">>
    /\ nret.result =
           Err([kind |-> "WrongFormat",
                text |-> <<"9f9f", "/", "1", "/", "1", "/", "1">>])

(***************************************************************************)
(* C23.  The comparison on WitnessId is a total order consistent with      *)
(* value equality: cmp(a, b) is Equal exactly when a == b (same layer-1    *)
(* variant and same txid), cmp(a, b) is always the reverse of cmp(b, a),   *)
(* and the relation is transitive; every Liquid id sorts below every       *)
(* Bitcoin id, and two ids of the same layer sort by their txids.          *)
(***************************************************************************)
C23_WitnessIdTotalOrder ==
    ordering # None =>
        LET o == ordering[1]
            le(c) == c \in {"Less", "Equal"}
            reverse(c) == IF c = "Less" THEN "Greater"
                          ELSE IF c = "Greater" THEN "Less" ELSE "Equal"
        IN  /\ (o.ab = "Equal") <=> o.eq
            /\ o.eq <=> (ordA = ordB)
            /\ o.aa = "Equal"
            /\ o.ab = reverse(o.ba)
            /\ (le(o.ab) /\ le(o.bc)) => le(o.ac)
            /\ (o.ab = "Less" /\ o.bc = "Less") => o.ac = "Less"
            /\ (ordA.layer1 = "Liquid" /\ ordB.layer1 = "Bitcoin") =>
                   o.ab = "Less" /\ o.ba = "Greater"
            /\ ordA.layer1 = ordB.layer1 => o.ab = IntCmp(ordA.txid, ordB.txid)

C23_Witness ==
    /\ ordering # None
    /\ ordA = WitnessId("Liquid", MaxTxid)
    /\ ordB = WitnessId("Bitcoin", 1)
    /\ ordC = WitnessId("Bitcoin", MaxTxid)
    /\ ordering[1].ab = "Less"
    /\ ordering[1].bc = "Less"
    /\ ordering[1].ac = "Less"

=============================================================================
